---------------------------- MODULE Spec2Model ----------------------------
(***************************************************************************)
(* Model of the Arduino MPPT solar charge controller, in its two variants: *)
(*   "float" : src/Arduino-MPPT.ino    (voltages are C floats, in volts)   *)
(*   "int"   : src/unnamed/part_001    (voltages are C longs, deci-volts)  *)
(*                                                                         *)
(* One step of the model is one whole call of loop(): read_data,           *)
(* mode_select, set_charger, run_load (and run_fan in the integer          *)
(* variant).  The hardware the sketch drives is part of the state: the     *)
(* driver-enable pin (shutDown), the PWM register of the driver pin, the   *)
(* load pin, the fan pin, the LED, and the millisecond clock.  `events'    *)
(* is the ordered list of calls and hardware accesses of the last          *)
(* setup() or loop() call.                                                 *)
(*                                                                         *)
(* Floats of the float variant are held in fixed point, in centi-volts     *)
(* (1 V = 100): a float comparison x < 13.6 reads x < 1360, a float to     *)
(* int conversion is a truncating division by 100.  Every suffix _f names  *)
(* code of src/Arduino-MPPT.ino, every suffix _i code of                   *)
(* src/unnamed/part_001.                                                   *)
(***************************************************************************)
EXTENDS Integers, Sequences, FiniteSets, TLC

VARIABLES
    variant,        \* which sketch is flashed: "float" or "int"
    millis,         \* the value millis() returns, in ms since reset
    charger_state,  \* enum charger_mode
    panelVolts, batteryVolts, Voc, Vcvm,
    pulseWidth, pwm, b, stepAmount, time,
    enable, SOC, Load,      \* the three telemetry strings
    state,                  \* int state (integer variant, for the GUI)
    LEDstate, time2,        \* LED blink bookkeeping (integer variant)
    shutDownPin,    \* level of the driver-enable pin (SD of the 2104)
    pwmReg,         \* last value given to pwmWrite(driver, .), NoWrite if none
    loadPin, fanPin, led13,
    events,         \* calls and hardware accesses of the last setup()/loop()
    vocTime,        \* history: millis() at the last update_Vcvm call
    clock32,        \* the 32-bit counter behind millis(), as two 16-bit limbs
    time32,         \* unsigned long time, as two 16-bit limbs
    passed,         \* history: the ms that truly passed since Init
    armedAt         \* history: what passed was when time was stored

vars == <<variant, millis, charger_state, panelVolts, batteryVolts, Voc, Vcvm,
          pulseWidth, pwm, b, stepAmount, time, enable, SOC, Load, state,
          LEDstate, time2, shutDownPin, pwmReg, loadPin, fanPin, led13, events,
          vocTime, clock32, time32, passed, armedAt>>

\* The whole state as one record, so that the functions of the sketch can be
\* written as operators from state to state.
cur == [variant |-> variant, millis |-> millis, charger_state |-> charger_state,
        panelVolts |-> panelVolts, batteryVolts |-> batteryVolts,
        Voc |-> Voc, Vcvm |-> Vcvm, pulseWidth |-> pulseWidth, pwm |-> pwm,
        b |-> b, stepAmount |-> stepAmount, time |-> time, enable |-> enable,
        SOC |-> SOC, Load |-> Load, state |-> state, LEDstate |-> LEDstate,
        time2 |-> time2, shutDownPin |-> shutDownPin, pwmReg |-> pwmReg,
        loadPin |-> loadPin, fanPin |-> fanPin, led13 |-> led13,
        events |-> events, vocTime |-> vocTime]

Becomes(s) ==
    /\ variant' = s.variant             /\ millis' = s.millis
    /\ charger_state' = s.charger_state /\ panelVolts' = s.panelVolts
    /\ batteryVolts' = s.batteryVolts   /\ Voc' = s.Voc
    /\ Vcvm' = s.Vcvm                   /\ pulseWidth' = s.pulseWidth
    /\ pwm' = s.pwm                     /\ b' = s.b
    /\ stepAmount' = s.stepAmount       /\ time' = s.time
    /\ enable' = s.enable               /\ SOC' = s.SOC
    /\ Load' = s.Load                   /\ state' = s.state
    /\ LEDstate' = s.LEDstate           /\ time2' = s.time2
    /\ shutDownPin' = s.shutDownPin     /\ pwmReg' = s.pwmReg
    /\ loadPin' = s.loadPin             /\ fanPin' = s.fanPin
    /\ led13' = s.led13                 /\ events' = s.events
    /\ vocTime' = s.vocTime
    /\ UNCHANGED <<clock32, time32, passed, armedAt>>

(***************************************************************************)
(* Arduino core: pin levels, constrain, map, abs, C integer division.      *)
(***************************************************************************)
HIGH == 1
LOW == 0
NoWrite == -1       \* the PWM register before the first pwmWrite after reset

\* C division truncates toward zero.
CDiv(x, y) == IF x >= 0 THEN x \div y ELSE -((-x) \div y)

constrain(x, lo, hi) == IF x < lo THEN lo ELSE IF x > hi THEN hi ELSE x

map(x, in_min, in_max, out_min, out_max) ==
    CDiv((x - in_min) * (out_max - out_min), in_max - in_min) + out_min

abs(x) == IF x > 0 THEN x ELSE -x

Event(op, what, val) == [op |-> op, what |-> what, val |-> val]

Log(s, op, what, val) == [s EXCEPT !.events = Append(@, Event(op, what, val))]

digitalWrite_shutDown(s, level) ==
    [Log(s, "digitalWrite", "shutDown", level) EXCEPT !.shutDownPin = level]

digitalWrite_load(s, level) ==
    [Log(s, "digitalWrite", "load", level) EXCEPT !.loadPin = level]

digitalWrite_fan(s, level) ==
    [Log(s, "digitalWrite", "fan", level) EXCEPT !.fanPin = level]

digitalWrite_13(s, level) ==
    [Log(s, "digitalWrite", "led", level) EXCEPT !.led13 = level]

pwmWrite(s, val) ==
    [Log(s, "pwmWrite", "driver", val) EXCEPT !.pwmReg = val]

(***************************************************************************)
(* Code shared by the two variants, word for word.                         *)
(***************************************************************************)
check == 15000

\* Mutant of disable_charger: the text is updated, the pin is not written.
disable_charger_textonly(s) == [s EXCEPT !.enable = "Off"]

\* Mutant of disable_charger: the duty is also written as 0.
disable_charger_zeroduty(s) ==
    [pwmWrite(digitalWrite_shutDown(s, LOW), 0) EXCEPT !.enable = "Off"]

disable_charger(s) ==
    [digitalWrite_shutDown(s, LOW) EXCEPT !.enable = "Off"]

\* while(b > 0){ time = millis(); b--; }  then the elapsed-time test.
ArmTimer(s) == IF s.b > 0 THEN [s EXCEPT !.time = s.millis, !.b = 0] ELSE s


(***************************************************************************)
(* src/Arduino-MPPT.ino, the float variant.  Voltages in centi-volts.      *)
(***************************************************************************)
Vmax_f == 1500          \* const int Vmax = 15
lowBatt_f == 1100       \* const int lowBatt = 11
Vfloat_f == 1360        \* const float Vfloat = 13.6
noBatt_f == 1000        \* the literal 10 of mode_select
minDuty_f == 100        \* constrain(pulseWidth, 100, 245)
maxDuty == 245          \* the same in both variants

\* x * 0.038136466707895 and x * 0.019550342130987, x in centi-units
\* (38136/1000000 = 4767/125000, 19550/1000000 = 391/20000).
scalePanel_f(x) == (x * 4767) \div 125000
scaleBattery_f(x) == (x * 391) \div 20000

\* acc += analogRead() a hundred times (sum is the sum of the hundred
\* samples), then acc/100.  The accumulator is NOT cleared first: it still
\* holds the previous voltage.
average_f(acc, sum) == (acc + sum * 100) \div 100

read_data_f(s, psum, bsum) ==
    LET s1 == Log(Log(Log(s, "call", "read_data", 0),
                      "analogRead", "panelMeter", psum),
                  "analogRead", "batteryMeter", bsum)
    IN  [s1 EXCEPT
           !.panelVolts = scalePanel_f(average_f(s.panelVolts, psum)),
           !.batteryVolts = scaleBattery_f(average_f(s.batteryVolts, bsum))]

\* Mutant of mode_select_f: the overvoltage test compares with 16 V.
mode_select_f_vmax16(s) ==
    LET s1 == Log(s, "call", "mode_select", 0)
        bv == s.batteryVolts
        pv == s.panelVolts
    IN  IF bv < noBatt_f THEN [s1 EXCEPT !.charger_state = "no_battery"]
        ELSE IF bv > 1600 THEN [s1 EXCEPT !.charger_state = "error"]
        ELSE IF (bv > noBatt_f) /\ (bv < Vmax_f) /\ (pv > bv + 100)
             THEN IF bv <= Vfloat_f - 10
                       THEN [s1 EXCEPT !.charger_state = "bulk"]
                  ELSE IF bv >= Vfloat_f
                       THEN [s1 EXCEPT !.charger_state = "Float"]
                  ELSE s1
        ELSE [s1 EXCEPT !.charger_state = "sleep"]

\* Mutant of mode_select_f: the sunlight test is >= instead of >.
mode_select_f_sunge(s) ==
    LET s1 == Log(s, "call", "mode_select", 0)
        bv == s.batteryVolts
        pv == s.panelVolts
    IN  IF bv < noBatt_f THEN [s1 EXCEPT !.charger_state = "no_battery"]
        ELSE IF bv > Vmax_f THEN [s1 EXCEPT !.charger_state = "error"]
        ELSE IF (bv > noBatt_f) /\ (bv < Vmax_f) /\ (pv >= bv + 100)
             THEN IF bv <= Vfloat_f - 10
                       THEN [s1 EXCEPT !.charger_state = "bulk"]
                  ELSE IF bv >= Vfloat_f
                       THEN [s1 EXCEPT !.charger_state = "Float"]
                  ELSE s1
        ELSE [s1 EXCEPT !.charger_state = "sleep"]

\* Mutant of mode_select_f: error is kept once entered.
mode_select_f_latch(s) ==
    LET s1 == Log(s, "call", "mode_select", 0)
        bv == s.batteryVolts
        pv == s.panelVolts
    IN  IF s.charger_state = "error" THEN s1
        ELSE IF bv < noBatt_f THEN [s1 EXCEPT !.charger_state = "no_battery"]
        ELSE IF bv > Vmax_f THEN [s1 EXCEPT !.charger_state = "error"]
        ELSE IF (bv > noBatt_f) /\ (bv < Vmax_f) /\ (pv > bv + 100)
             THEN IF bv <= Vfloat_f - 10
                       THEN [s1 EXCEPT !.charger_state = "bulk"]
                  ELSE IF bv >= Vfloat_f
                       THEN [s1 EXCEPT !.charger_state = "Float"]
                  ELSE s1
        ELSE [s1 EXCEPT !.charger_state = "sleep"]

\* Mutant of mode_select_f: one threshold, no band (as in the integer
\* variant).
mode_select_f_noband(s) ==
    LET s1 == Log(s, "call", "mode_select", 0)
        bv == s.batteryVolts
        pv == s.panelVolts
    IN  IF bv < noBatt_f THEN [s1 EXCEPT !.charger_state = "no_battery"]
        ELSE IF bv > Vmax_f THEN [s1 EXCEPT !.charger_state = "error"]
        ELSE IF (bv > noBatt_f) /\ (bv < Vmax_f) /\ (pv > bv + 100)
             THEN IF bv >= Vfloat_f - 10
                       THEN [s1 EXCEPT !.charger_state = "Float"]
                       ELSE [s1 EXCEPT !.charger_state = "bulk"]
        ELSE [s1 EXCEPT !.charger_state = "sleep"]

mode_select_f(s) ==
    LET s1 == Log(s, "call", "mode_select", 0)
        bv == s.batteryVolts
        pv == s.panelVolts
    IN  IF bv < noBatt_f THEN [s1 EXCEPT !.charger_state = "no_battery"]
        ELSE IF bv > Vmax_f THEN [s1 EXCEPT !.charger_state = "error"]
        ELSE IF (bv > noBatt_f) /\ (bv < Vmax_f) /\ (pv > bv + 100)
             THEN IF bv <= Vfloat_f - 10
                       THEN [s1 EXCEPT !.charger_state = "bulk"]
                  ELSE IF bv >= Vfloat_f
                       THEN [s1 EXCEPT !.charger_state = "Float"]
                  ELSE s1
        ELSE [s1 EXCEPT !.charger_state = "sleep"]

\* Mutant of run_charger_f: pulseWidth is not constrained before the write.
run_charger_f_noclamp(s) ==
    LET s1 == [Log(s, "call", "run_charger", s.pulseWidth) EXCEPT
                  !.pwm = map(s.pulseWidth, 0, 255, 0, 100)]
        s2 == pwmWrite(s1, s1.pulseWidth)
        s3 == digitalWrite_shutDown(s2, HIGH)
    IN  [s3 EXCEPT !.enable = "On"]

\* Mutant of run_charger_f: the duty is written but the driver is not
\* enabled again.
run_charger_f_noenable(s) ==
    LET pw == constrain(s.pulseWidth, minDuty_f, maxDuty)
        s1 == [Log(s, "call", "run_charger", s.pulseWidth) EXCEPT
                  !.pulseWidth = pw, !.pwm = map(pw, 0, 255, 0, 100)]
        s2 == pwmWrite(s1, s1.pulseWidth)
    IN  [s2 EXCEPT !.enable = "On"]

run_charger_f(s) ==
    LET pw == constrain(s.pulseWidth, minDuty_f, maxDuty)
        s1 == [Log(s, "call", "run_charger", s.pulseWidth) EXCEPT
                  !.pulseWidth = pw, !.pwm = map(pw, 0, 255, 0, 100)]
        s2 == pwmWrite(s1, s1.pulseWidth)
        s3 == digitalWrite_shutDown(s2, HIGH)
    IN  [s3 EXCEPT !.enable = "On"]

\* Mutant of update_Vcvm_f: b is not set, so the timer is not armed again.
update_Vcvm_f_norearm(s, vsum) ==
    LET s1 == disable_charger(Log(s, "call", "update_Vcvm", 0))
        s2 == Log(s1, "analogRead", "panelMeter", vsum)
        voc == scalePanel_f(average_f(s.Voc, vsum))
    IN  [s2 EXCEPT !.Voc = voc, !.Vcvm = (voc * 76) \div 100,
                   !.vocTime = s.millis]

update_Vcvm_f(s, vsum) ==
    LET s1 == disable_charger(Log(s, "call", "update_Vcvm", 0))
        s2 == Log(s1, "analogRead", "panelMeter", vsum)
        voc == scalePanel_f(average_f(s.Voc, vsum))
    IN  [s2 EXCEPT !.Voc = voc, !.Vcvm = (voc * 76) \div 100, !.b = 1,
                   !.vocTime = s.millis]

\* Mutant of CVM_f: the duty is also raised when the panel is on the target.
CVM_f_ge(s, vsum) ==
    LET s0 == Log(s, "call", "CVM", 0)
        s1 == ArmTimer(s0)
        s2 == IF (s1.millis - s1.time) >= check
              THEN update_Vcvm_f(s1, vsum) ELSE s1
        s3 == IF s2.Vcvm < s2.batteryVolts
              THEN [s2 EXCEPT !.Vcvm = s2.batteryVolts + 100] ELSE s2
        raw == abs(s3.Vcvm - s3.panelVolts) \div 100
        step == IF raw < 1 THEN 1 ELSE raw
        s4 == [s3 EXCEPT !.stepAmount = step]
    IN  IF s4.panelVolts >= s4.Vcvm
        THEN IF s4.pulseWidth < 245
             THEN [s4 EXCEPT !.pulseWidth = @ + step]
             ELSE [s4 EXCEPT !.pulseWidth = 245]
        ELSE IF s4.panelVolts < s4.Vcvm
        THEN IF s4.pulseWidth > 100
             THEN [s4 EXCEPT !.pulseWidth = @ - step]
             ELSE [s4 EXCEPT !.pulseWidth = 100]
        ELSE s4

\* Mutant of CVM_f: the step is taken from the signed difference.
CVM_f_noabs(s, vsum) ==
    LET s0 == Log(s, "call", "CVM", 0)
        s1 == ArmTimer(s0)
        s2 == IF (s1.millis - s1.time) >= check
              THEN update_Vcvm_f(s1, vsum) ELSE s1
        s3 == IF s2.Vcvm < s2.batteryVolts
              THEN [s2 EXCEPT !.Vcvm = s2.batteryVolts + 100] ELSE s2
        raw == CDiv(s3.Vcvm - s3.panelVolts, 100)
        step == IF raw < 1 THEN 1 ELSE raw
        s4 == [s3 EXCEPT !.stepAmount = step]
    IN  IF s4.panelVolts > s4.Vcvm
        THEN IF s4.pulseWidth < 245
             THEN [s4 EXCEPT !.pulseWidth = @ + step]
             ELSE [s4 EXCEPT !.pulseWidth = 245]
        ELSE IF s4.panelVolts < s4.Vcvm
        THEN IF s4.pulseWidth > 100
             THEN [s4 EXCEPT !.pulseWidth = @ - step]
             ELSE [s4 EXCEPT !.pulseWidth = 100]
        ELSE s4

\* Mutant of CVM_f: without the start-up guard (as in the integer variant).
CVM_f_noguard(s, vsum) ==
    LET s0 == Log(s, "call", "CVM", 0)
        s1 == ArmTimer(s0)
        s3 == IF (s1.millis - s1.time) >= check
              THEN update_Vcvm_f(s1, vsum) ELSE s1
        raw == abs(s3.Vcvm - s3.panelVolts) \div 100
        step == IF raw < 1 THEN 1 ELSE raw
        s4 == [s3 EXCEPT !.stepAmount = step]
    IN  IF s4.panelVolts > s4.Vcvm
        THEN IF s4.pulseWidth < 245
             THEN [s4 EXCEPT !.pulseWidth = @ + step]
             ELSE [s4 EXCEPT !.pulseWidth = 245]
        ELSE IF s4.panelVolts < s4.Vcvm
        THEN IF s4.pulseWidth > 100
             THEN [s4 EXCEPT !.pulseWidth = @ - step]
             ELSE [s4 EXCEPT !.pulseWidth = 100]
        ELSE s4

\* Mutant of CVM_f: the guard keeps the target a full volt over the battery.
CVM_f_margin(s, vsum) ==
    LET s0 == Log(s, "call", "CVM", 0)
        s1 == ArmTimer(s0)
        s2 == IF (s1.millis - s1.time) >= check
              THEN update_Vcvm_f(s1, vsum) ELSE s1
        s3 == IF s2.Vcvm < s2.batteryVolts + 100
              THEN [s2 EXCEPT !.Vcvm = s2.batteryVolts + 100] ELSE s2
        raw == abs(s3.Vcvm - s3.panelVolts) \div 100
        step == IF raw < 1 THEN 1 ELSE raw
        s4 == [s3 EXCEPT !.stepAmount = step]
    IN  IF s4.panelVolts > s4.Vcvm
        THEN IF s4.pulseWidth < 245
             THEN [s4 EXCEPT !.pulseWidth = @ + step]
             ELSE [s4 EXCEPT !.pulseWidth = 245]
        ELSE IF s4.panelVolts < s4.Vcvm
        THEN IF s4.pulseWidth > 100
             THEN [s4 EXCEPT !.pulseWidth = @ - step]
             ELSE [s4 EXCEPT !.pulseWidth = 100]
        ELSE s4

\* Mutant of CVM_f: the step is not raised to 1, so a difference under 1 V
\* gives a step of 0.
CVM_f_stall(s, vsum) ==
    LET s0 == Log(s, "call", "CVM", 0)
        s1 == ArmTimer(s0)
        s2 == IF (s1.millis - s1.time) >= check
              THEN update_Vcvm_f(s1, vsum) ELSE s1
        s3 == IF s2.Vcvm < s2.batteryVolts
              THEN [s2 EXCEPT !.Vcvm = s2.batteryVolts + 100] ELSE s2
        step == abs(s3.Vcvm - s3.panelVolts) \div 100
        s4 == [s3 EXCEPT !.stepAmount = step]
    IN  IF s4.panelVolts > s4.Vcvm
        THEN IF s4.pulseWidth < 245
             THEN [s4 EXCEPT !.pulseWidth = @ + step]
             ELSE [s4 EXCEPT !.pulseWidth = 245]
        ELSE IF s4.panelVolts < s4.Vcvm
        THEN IF s4.pulseWidth > 100
             THEN [s4 EXCEPT !.pulseWidth = @ - step]
             ELSE [s4 EXCEPT !.pulseWidth = 100]
        ELSE s4

CVM_f(s, vsum) ==
    LET s0 == Log(s, "call", "CVM", 0)
        s1 == ArmTimer(s0)
        s2 == IF (s1.millis - s1.time) >= check
              THEN update_Vcvm_f(s1, vsum) ELSE s1
        s3 == IF s2.Vcvm < s2.batteryVolts
              THEN [s2 EXCEPT !.Vcvm = s2.batteryVolts + 100] ELSE s2
        raw == abs(s3.Vcvm - s3.panelVolts) \div 100   \* float to int
        step == IF raw < 1 THEN 1 ELSE raw
        s4 == [s3 EXCEPT !.stepAmount = step]
    IN  IF s4.panelVolts > s4.Vcvm
        THEN IF s4.pulseWidth < 245
             THEN [s4 EXCEPT !.pulseWidth = @ + step]
             ELSE [s4 EXCEPT !.pulseWidth = 245]
        ELSE IF s4.panelVolts < s4.Vcvm
        THEN IF s4.pulseWidth > 100
             THEN [s4 EXCEPT !.pulseWidth = @ - step]
             ELSE [s4 EXCEPT !.pulseWidth = 100]
        ELSE s4

\* error_blink and sleep_blink blink with delay() and leave the LED LOW.
error_blink_f(s) == digitalWrite_13(s, LOW)
sleep_blink_f(s) == digitalWrite_13(s, LOW)

set_charger_f(s, vsum) ==
    LET s0 == Log(s, "call", "set_charger", 0)
    IN  CASE s0.charger_state = "no_battery" ->
               [error_blink_f(disable_charger(s0)) EXCEPT !.SOC = "No Battery!"]
          [] s0.charger_state = "sleep" ->
               sleep_blink_f([disable_charger(s0) EXCEPT !.SOC = "Sleep"])
          [] s0.charger_state = "bulk" ->
               digitalWrite_13(
                   run_charger_f(CVM_f([s0 EXCEPT !.SOC = "Bulk"], vsum)), HIGH)
          [] s0.charger_state = "Float" ->
               LET s1 == [s0 EXCEPT !.SOC = "Float", !.pulseWidth = 245]
                   s2 == IF s1.batteryVolts < Vfloat_f
                         THEN run_charger_f(s1) ELSE disable_charger(s1)
               IN  digitalWrite_13(s2, LOW)
          [] s0.charger_state = "error" ->
               [error_blink_f(disable_charger(s0)) EXCEPT !.SOC = "Error"]

\* Mutant of run_load_f: the load is also switched off in the error state.
run_load_f_safe(s) ==
    LET s0 == Log(s, "call", "run_load", 0)
    IN  IF s0.batteryVolts > lowBatt_f /\ s0.charger_state # "error"
        THEN [digitalWrite_load(s0, LOW) EXCEPT !.Load = "On"]
        ELSE [digitalWrite_load(s0, HIGH) EXCEPT !.Load = "Off"]

run_load_f(s) ==
    LET s0 == Log(s, "call", "run_load", 0)
    IN  IF s0.batteryVolts > lowBatt_f
        THEN [digitalWrite_load(s0, LOW) EXCEPT !.Load = "On"]
        ELSE [digitalWrite_load(s0, HIGH) EXCEPT !.Load = "Off"]

\* Mutant of loop_f: set_charger acts before mode_select has classified.
loop_f_actfirst(s, e, psum, bsum, vsum) ==
    LET s0 == [s EXCEPT !.millis = @ + e, !.events = <<>>]
    IN  run_load_f(mode_select_f(set_charger_f(read_data_f(s0, psum, bsum),
                                               vsum)))

\* One call of loop().  e is the time the previous iteration took.
loop_f(s, e, psum, bsum, vsum) ==
    LET s0 == [s EXCEPT !.millis = @ + e, !.events = <<>>]
    IN  run_load_f(set_charger_f(mode_select_f(read_data_f(s0, psum, bsum)),
                                 vsum))

\* The globals as their initialisers leave them; charger_state is a
\* zero-initialised enum, hence no_battery.
PowerOn_f ==
    [variant |-> "float", millis |-> 0, charger_state |-> "no_battery",
     panelVolts |-> 0, batteryVolts |-> 1200, Voc |-> 0, Vcvm |-> 0,
     pulseWidth |-> 245, pwm |-> 0, b |-> 1, stepAmount |-> 1, time |-> 0,
     enable |-> "starting", SOC |-> "Initializing", Load |-> "Off",
     state |-> 0, LEDstate |-> LOW, time2 |-> 0,
     shutDownPin |-> LOW, pwmReg |-> NoWrite, loadPin |-> LOW,
     fanPin |-> LOW, led13 |-> LOW, events |-> <<>>, vocTime |-> 0]

\* Mutant of setup_f: setup returns when the frequency could not be set.
setup_f_halt(success, vsum) ==
    LET s1 == disable_charger(Log(PowerOn_f, "call", "setup", 0))
        s2 == [s1 EXCEPT !.charger_state = "sleep"]
    IN  IF success THEN update_Vcvm_f(digitalWrite_13(s2, HIGH), vsum)
                   ELSE digitalWrite_13(s2, LOW)

\* setup(); success is what SetPinFrequencySafe returns.
setup_f(success, vsum) ==
    LET s1 == disable_charger(Log(PowerOn_f, "call", "setup", 0))
        s2 == [s1 EXCEPT !.charger_state = "sleep"]
        s3 == IF success THEN digitalWrite_13(s2, HIGH)
                         ELSE digitalWrite_13(s2, LOW)
    IN  update_Vcvm_f(s3, vsum)

(***************************************************************************)
(* src/unnamed/part_001, the integer variant.  Voltages in deci-volts.     *)
(***************************************************************************)
Vmax_i == 150           \* #define Vmax 150
lowBatt_i == 110        \* #define lowBatt 110
Vfloat_i == 136         \* #define Vfloat 136
noBatt_i == 100         \* the literal 100 of mode_select
minDuty_i == 75         \* constrain(pulseWidth, 75, 245)

read_data_i(s, psum, bsum) ==
    LET s1 == Log(Log(Log(s, "call", "read_data", 0),
                      "analogRead", "panelMeter", psum),
                  "analogRead", "batteryMeter", bsum)
    IN  [s1 EXCEPT
           !.panelVolts = CDiv(CDiv(0 + psum, 100) * 488, 1197),
           !.batteryVolts = CDiv(CDiv(0 + bsum, 100) * 488, 2441)]

mode_select_i(s) ==
    LET s1 == Log(s, "call", "mode_select", 0)
        bv == s.batteryVolts
        pv == s.panelVolts
    IN  IF bv < noBatt_i THEN [s1 EXCEPT !.charger_state = "no_battery"]
        ELSE IF bv > Vmax_i THEN [s1 EXCEPT !.charger_state = "error"]
        ELSE IF (bv > noBatt_i) /\ (bv < Vmax_i) /\ (pv > Vmax_i)
             THEN IF bv >= Vfloat_i - 1
                       THEN [s1 EXCEPT !.charger_state = "Float"]
                       ELSE [s1 EXCEPT !.charger_state = "bulk"]
        ELSE IF pv < Vmax_i THEN [s1 EXCEPT !.charger_state = "sleep"]
        ELSE s1

\* Mutant of run_charger_i: the driver is enabled before the pwmWrite.
run_charger_i_swapped(s) ==
    LET pw == constrain(s.pulseWidth, minDuty_i, maxDuty)
        s1 == [Log(s, "call", "run_charger", s.pulseWidth) EXCEPT
                  !.pulseWidth = pw, !.pwm = map(pw, 0, 255, 0, 100)]
        s2 == digitalWrite_shutDown(s1, HIGH)
        s3 == pwmWrite(s2, s2.pulseWidth)
    IN  [s3 EXCEPT !.enable = "On"]

run_charger_i(s) ==
    LET pw == constrain(s.pulseWidth, minDuty_i, maxDuty)
        s1 == [Log(s, "call", "run_charger", s.pulseWidth) EXCEPT
                  !.pulseWidth = pw, !.pwm = map(pw, 0, 255, 0, 100)]
        s2 == pwmWrite(s1, s1.pulseWidth)
        s3 == digitalWrite_shutDown(s2, HIGH)
    IN  [s3 EXCEPT !.enable = "On"]

\* Mutant of update_Vcvm_i: the driver is switched on again after the
\* measurement.
update_Vcvm_i_reenable(s, vsum) ==
    LET s1 == disable_charger(Log(s, "call", "update_Vcvm", 0))
        s2 == Log(s1, "analogRead", "panelMeter", vsum)
        voc == CDiv(CDiv(0 + vsum, 100) * 488, 1197)
        s3 == [s2 EXCEPT !.Voc = voc, !.Vcvm = CDiv(voc * 76, 100), !.b = 1,
                         !.vocTime = s.millis]
    IN  [digitalWrite_shutDown(s3, HIGH) EXCEPT !.enable = "On"]

update_Vcvm_i(s, vsum) ==
    LET s1 == disable_charger(Log(s, "call", "update_Vcvm", 0))
        s2 == Log(s1, "analogRead", "panelMeter", vsum)
        voc == CDiv(CDiv(0 + vsum, 100) * 488, 1197)
    IN  [s2 EXCEPT !.Voc = voc, !.Vcvm = CDiv(voc * 76, 100), !.b = 1,
                   !.vocTime = s.millis]

\* Mutant of CVM_i: the step is not raised to 1.
CVM_i_nofloor(s, vsum) ==
    LET s0 == Log(s, "call", "CVM", 0)
        s1 == ArmTimer(s0)
        s2 == IF (s1.millis - s1.time) >= check
              THEN update_Vcvm_i(s1, vsum) ELSE s1
        step == CDiv(s2.Vcvm - s2.panelVolts, 10)
        s4 == [s2 EXCEPT !.stepAmount = step]
    IN  IF s4.panelVolts > s4.Vcvm
        THEN IF s4.pulseWidth < 245
             THEN [s4 EXCEPT !.pulseWidth = @ + step]
             ELSE [s4 EXCEPT !.pulseWidth = 245]
        ELSE IF s4.panelVolts < s4.Vcvm
        THEN IF s4.pulseWidth > 75
             THEN [s4 EXCEPT !.pulseWidth = @ - step]
             ELSE [s4 EXCEPT !.pulseWidth = 75]
        ELSE s4

\* Mutant of CVM_i: the recalibration waits until more than check ms have
\* elapsed.
CVM_i_late(s, vsum) ==
    LET s0 == Log(s, "call", "CVM", 0)
        s1 == ArmTimer(s0)
        s2 == IF (s1.millis - s1.time) > check
              THEN update_Vcvm_i(s1, vsum) ELSE s1
        raw == CDiv(s2.Vcvm - s2.panelVolts, 10)
        step == IF raw < 1 THEN 1 ELSE raw
        s4 == [s2 EXCEPT !.stepAmount = step]
    IN  IF s4.panelVolts > s4.Vcvm
        THEN IF s4.pulseWidth < 245
             THEN [s4 EXCEPT !.pulseWidth = @ + step]
             ELSE [s4 EXCEPT !.pulseWidth = 245]
        ELSE IF s4.panelVolts < s4.Vcvm
        THEN IF s4.pulseWidth > 75
             THEN [s4 EXCEPT !.pulseWidth = @ - step]
             ELSE [s4 EXCEPT !.pulseWidth = 75]
        ELSE s4

CVM_i(s, vsum) ==
    LET s0 == Log(s, "call", "CVM", 0)
        s1 == ArmTimer(s0)
        s2 == IF (s1.millis - s1.time) >= check
              THEN update_Vcvm_i(s1, vsum) ELSE s1
        raw == CDiv(s2.Vcvm - s2.panelVolts, 10)
        step == IF raw < 1 THEN 1 ELSE raw
        s4 == [s2 EXCEPT !.stepAmount = step]
    IN  IF s4.panelVolts > s4.Vcvm
        THEN IF s4.pulseWidth < 245
             THEN [s4 EXCEPT !.pulseWidth = @ + step]
             ELSE [s4 EXCEPT !.pulseWidth = 245]
        ELSE IF s4.panelVolts < s4.Vcvm
        THEN IF s4.pulseWidth > 75
             THEN [s4 EXCEPT !.pulseWidth = @ - step]
             ELSE [s4 EXCEPT !.pulseWidth = 75]
        ELSE s4

\* if((millis() - time2) >= period){ LEDstate = !LEDstate; ... }
blink_i(s, period) ==
    IF (s.millis - s.time2) >= period
    THEN LET led == IF s.LEDstate = LOW THEN HIGH ELSE LOW
         IN  [digitalWrite_13([s EXCEPT !.LEDstate = led], led)
                 EXCEPT !.time2 = s.millis]
    ELSE s

error_blink_i(s) == blink_i(s, 200)
sleep_blink_i(s) == blink_i(s, 2000)

\* Mutant of set_charger_i: the Float case leaves pulseWidth as it was.
set_charger_i_keepduty(s, vsum) ==
    LET s0 == Log(s, "call", "set_charger", 0)
    IN  CASE s0.charger_state = "no_battery" ->
               [error_blink_i(disable_charger(s0)) EXCEPT
                   !.SOC = "No Battery!", !.state = 0]
          [] s0.charger_state = "sleep" ->
               [sleep_blink_i([disable_charger(s0) EXCEPT !.SOC = "Sleep"])
                   EXCEPT !.state = 1, !.pulseWidth = 100]
          [] s0.charger_state = "bulk" ->
               [digitalWrite_13(
                   run_charger_i(CVM_i([s0 EXCEPT !.SOC = "Bulk"], vsum)), HIGH)
                   EXCEPT !.state = 2]
          [] s0.charger_state = "Float" ->
               LET s1 == [s0 EXCEPT !.SOC = "Float"]
                   s2 == IF s1.batteryVolts < Vfloat_i
                         THEN run_charger_i(s1) ELSE disable_charger(s1)
               IN  [digitalWrite_13(s2, LOW) EXCEPT !.state = 3]
          [] s0.charger_state = "error" ->
               [error_blink_i(disable_charger(s0)) EXCEPT
                   !.SOC = "Error", !.state = 4]

set_charger_i(s, vsum) ==
    LET s0 == Log(s, "call", "set_charger", 0)
    IN  CASE s0.charger_state = "no_battery" ->
               [error_blink_i(disable_charger(s0)) EXCEPT
                   !.SOC = "No Battery!", !.state = 0]
          [] s0.charger_state = "sleep" ->
               [sleep_blink_i([disable_charger(s0) EXCEPT !.SOC = "Sleep"])
                   EXCEPT !.state = 1, !.pulseWidth = 100]
          [] s0.charger_state = "bulk" ->
               [digitalWrite_13(
                   run_charger_i(CVM_i([s0 EXCEPT !.SOC = "Bulk"], vsum)), HIGH)
                   EXCEPT !.state = 2]
          [] s0.charger_state = "Float" ->
               LET s1 == [s0 EXCEPT !.SOC = "Float", !.pulseWidth = 245]
                   s2 == IF s1.batteryVolts < Vfloat_i
                         THEN run_charger_i(s1) ELSE disable_charger(s1)
               IN  [digitalWrite_13(s2, LOW) EXCEPT !.state = 3]
          [] s0.charger_state = "error" ->
               [error_blink_i(disable_charger(s0)) EXCEPT
                   !.SOC = "Error", !.state = 4]

run_load_i(s) ==
    LET s0 == Log(s, "call", "run_load", 0)
    IN  IF s0.batteryVolts > lowBatt_i
        THEN [digitalWrite_load(s0, LOW) EXCEPT !.Load = "On"]
        ELSE [digitalWrite_load(s0, HIGH) EXCEPT !.Load = "Off"]

run_fan_i(s) ==
    LET s0 == Log(s, "call", "run_fan", 0)
    IN  IF s0.charger_state = "bulk" THEN digitalWrite_fan(s0, HIGH)
                                     ELSE digitalWrite_fan(s0, LOW)

loop_i(s, e, psum, bsum, vsum) ==
    LET s0 == [s EXCEPT !.millis = @ + e, !.events = <<>>]
    IN  run_fan_i(run_load_i(set_charger_i(
            mode_select_i(read_data_i(s0, psum, bsum)), vsum)))

PowerOn_i ==
    [variant |-> "int", millis |-> 0, charger_state |-> "no_battery",
     panelVolts |-> 0, batteryVolts |-> 120, Voc |-> 0, Vcvm |-> 0,
     pulseWidth |-> 100, pwm |-> 0, b |-> 1, stepAmount |-> 1, time |-> 0,
     enable |-> "starting", SOC |-> "Initializing", Load |-> "Off",
     state |-> 0, LEDstate |-> LOW, time2 |-> 0,
     shutDownPin |-> LOW, pwmReg |-> NoWrite, loadPin |-> LOW,
     fanPin |-> LOW, led13 |-> LOW, events |-> <<>>, vocTime |-> 0]

setup_i(success, vsum) ==
    LET s1 == disable_charger(Log(PowerOn_i, "call", "setup", 0))
        s2 == [s1 EXCEPT !.charger_state = "sleep"]
        s3 == IF success THEN digitalWrite_13(s2, HIGH)
                         ELSE digitalWrite_13(s2, LOW)
    IN  update_Vcvm_i(s3, vsum)

(***************************************************************************)
(* The environment: what the ADC returns and how long an iteration takes.  *)
(* A set of sums names, for each of the hundred-sample bursts, the sum of  *)
(* the hundred raw samples (each 0..1023).                                 *)
(***************************************************************************)
\* float variant: panel 9.0 V (dark), 13.0 V, 17.0 V, 18.0 V
PanelSums_f == {23595, 34089, 44578, 47200}
\* float variant: battery 9.5, 10.0, 10.01, 12.0, 13.55, 13.7, 15.0, 16.0 V
BatterySums_f == {48590, 51150, 51200, 61380, 69310, 70075, 76725, 81840}
\* float variant: open-circuit voltages whose 76% is 12.5 V, 17.0 V, 29.64 V
VocSums_f == {43136, 58659, 102266}

\* integer variant: panel 9.0, 15.0, 15.1, 17.0, 18.0 V
PanelSums_i == {22100, 36800, 37100, 41700, 44200}
\* integer variant: battery 9.5, 10.0, 12.0, 13.5, 13.7, 15.0, 16.0 V
BatterySums_i == {47600, 50100, 60100, 67600, 68600, 75100, 80100}
\* integer variant: open-circuit voltages whose 76% is 12.5 V, 17.0 V, 31.6 V
VocSums_i == {40500, 55000, 102300}

\* Duration of one loop() iteration, in ms.
Elapsed == {5000, 10000}

\* The clock is followed up to MaxMillis ms after a reset.
MaxMillis == 25000

IsState(s) ==
    /\ variant = s.variant             /\ millis = s.millis
    /\ charger_state = s.charger_state /\ panelVolts = s.panelVolts
    /\ batteryVolts = s.batteryVolts   /\ Voc = s.Voc
    /\ Vcvm = s.Vcvm                   /\ pulseWidth = s.pulseWidth
    /\ pwm = s.pwm                     /\ b = s.b
    /\ stepAmount = s.stepAmount       /\ time = s.time
    /\ enable = s.enable               /\ SOC = s.SOC
    /\ Load = s.Load                   /\ state = s.state
    /\ LEDstate = s.LEDstate           /\ time2 = s.time2
    /\ shutDownPin = s.shutDownPin     /\ pwmReg = s.pwmReg
    /\ loadPin = s.loadPin             /\ fanPin = s.fanPin
    /\ led13 = s.led13                 /\ events = s.events
    /\ vocTime = s.vocTime

\* Power-on: the initialisers, then setup().  millis is counted from the
\* reset and stays far from 2^32; the 32-bit counter is followed separately
\* (SpecWrap) and rests here.
Init ==
    /\ clock32 = <<0, 0>> /\ time32 = <<0, 0>>
    /\ passed = <<0, 0>> /\ armedAt = <<0, 0>>
    /\ \/ \E success \in BOOLEAN, vsum \in VocSums_f :
             IsState(setup_f(success, vsum))
       \/ \E success \in BOOLEAN, vsum \in VocSums_i :
             IsState(setup_i(success, vsum))

\* Whether this iteration's CVM call will run update_Vcvm, given the state
\* mode_select leaves.
ReadsVoc(s) ==
    /\ s.charger_state = "bulk"
    /\ (ArmTimer(s).millis - ArmTimer(s).time) >= check

\* loop() once, in an environment that offers the elapsed times E and the
\* sample sums PS, BS, VS, followed until the clock reaches horizon.
LoopEnv_f(E, PS, BS, VS, horizon) ==
    /\ variant = "float"
    /\ \E e \in E, psum \in PS, bsum \in BS :
          /\ millis + e <= horizon
          /\ IF ReadsVoc(mode_select_f(read_data_f(
                    [cur EXCEPT !.millis = @ + e], psum, bsum)))
             THEN \E vsum \in VS : Becomes(loop_f(cur, e, psum, bsum, vsum))
             ELSE Becomes(loop_f(cur, e, psum, bsum, 0))

LoopEnv_i(E, PS, BS, VS, horizon) ==
    /\ variant = "int"
    /\ \E e \in E, psum \in PS, bsum \in BS :
          /\ millis + e <= horizon
          /\ IF ReadsVoc(mode_select_i(read_data_i(
                    [cur EXCEPT !.millis = @ + e], psum, bsum)))
             THEN \E vsum \in VS : Becomes(loop_i(cur, e, psum, bsum, vsum))
             ELSE Becomes(loop_i(cur, e, psum, bsum, 0))

Loop_f == LoopEnv_f(Elapsed, PanelSums_f, BatterySums_f, VocSums_f, MaxMillis)

Loop_i == LoopEnv_i(Elapsed, PanelSums_i, BatterySums_i, VocSums_i, MaxMillis)

\* External reset (power cycle or reset button): initialisers and setup().
Reset_f ==
    /\ variant = "float"
    /\ \E success \in BOOLEAN, vsum \in VocSums_f :
          Becomes(setup_f(success, vsum))

Reset_i ==
    /\ variant = "int"
    /\ \E success \in BOOLEAN, vsum \in VocSums_i :
          Becomes(setup_i(success, vsum))

Next == Loop_f \/ Loop_i \/ Reset_f \/ Reset_i

Spec == Init /\ [][Next]_vars

(***************************************************************************)
(* A long sunny run: the battery stays in the bulk range, the panel is     *)
(* lit, every iteration takes TrackElapsed ms, and the clock is followed   *)
(* up to TrackMillis.  The runs of Spec are short and see every input;     *)
(* the runs of SpecTrack are long and see the inputs of the tracking loop. *)
(***************************************************************************)
TrackElapsed == 5000
TrackMillis == 60000

\* float variant: panel 13.0 V and 18.0 V, battery 10.01 V,
\* open-circuit voltages whose 76% is 17.0 V and 29.64 V
TrackPanelSums_f == {34089, 47200}
TrackBatterySums_f == {51200}
TrackVocSums_f == {58659, 102266}

\* integer variant: panel 15.1 V and 18.0 V, battery 12.0 V,
\* open-circuit voltages whose 76% is 17.0 V and 31.6 V
TrackPanelSums_i == {37100, 44200}
TrackBatterySums_i == {60100}
TrackVocSums_i == {55000, 102300}

Track_f == LoopEnv_f({TrackElapsed}, TrackPanelSums_f, TrackBatterySums_f,
                     TrackVocSums_f, TrackMillis)

Track_i == LoopEnv_i({TrackElapsed}, TrackPanelSums_i, TrackBatterySums_i,
                     TrackVocSums_i, TrackMillis)

NextTrack == Track_f \/ Track_i \/ Reset_f \/ Reset_i

SpecTrack == Init /\ [][NextTrack]_vars

(***************************************************************************)
(* Vocabulary of the properties.                                           *)
(***************************************************************************)
ChargerStates == {"no_battery", "sleep", "bulk", "Float", "error"}

\* The state is the one a loop() call has just left (not the one setup left).
TickDone == Len(events) > 0 /\ events[1].what = "read_data"

Called(f) == \E i \in DOMAIN events : events[i].op = "call" /\ events[i].what = f

IsEnable(ev) == ev.op = "digitalWrite" /\ ev.what = "shutDown" /\ ev.val = HIGH

minDuty == IF variant = "float" THEN minDuty_f ELSE minDuty_i
Vmax == IF variant = "float" THEN Vmax_f ELSE Vmax_i
noBatt == IF variant = "float" THEN noBatt_f ELSE noBatt_i

\* What mode_select makes of the measured voltages when the state before
\* the call is prev.
classify_f(prev) == mode_select_f([cur EXCEPT !.charger_state = prev]).charger_state
classify_i(prev) == mode_select_i([cur EXCEPT !.charger_state = prev]).charger_state

(***************************************************************************)
(* C1  Error is latching: once charger_state is error at the end of a      *)
(* loop iteration it is error at the end of every later one; only a reset  *)
(* leaves it.  (Stated as a step property: a loop() call that starts in    *)
(* error ends in error.)                                                   *)
(***************************************************************************)
C1_ErrorLatches ==
    [][(charger_state = "error" /\ events'[1].what = "read_data")
          => charger_state' = "error"]_vars

(***************************************************************************)
(* C2  Every value given to pwmWrite lies in [minDuty, maxDuty], and       *)
(* pulseWidth lies in that range after each run_charger call, also when    *)
(* CVM left it outside the range.                                          *)
(***************************************************************************)
C2_DutyInRange ==
    /\ \A i \in DOMAIN events :
          events[i].op = "pwmWrite" =>
              (minDuty <= events[i].val /\ events[i].val <= maxDuty)
    /\ pwmReg # NoWrite => (minDuty <= pwmReg /\ pwmReg <= maxDuty)
    /\ Called("run_charger") =>
          (minDuty <= pulseWidth /\ pulseWidth <= maxDuty /\ pwmReg = pulseWidth)

\* run_charger was entered with pulseWidth above maxDuty and wrote maxDuty.
C2_Witness ==
    /\ \E i \in DOMAIN events :
          /\ events[i].op = "call" /\ events[i].what = "run_charger"
          /\ events[i].val > maxDuty
    /\ pwmReg = maxDuty

(***************************************************************************)
(* C3  Every write of HIGH to the driver-enable pin comes right after the  *)
(* pwmWrite of the clamped pulseWidth of the same run_charger call, with   *)
(* no other access in between; the driver is never enabled before the      *)
(* first pwmWrite after reset.                                             *)
(***************************************************************************)
C3_EnableAfterPwm ==
    /\ \A i \in DOMAIN events :
          IsEnable(events[i]) =>
              /\ i >= 3
              /\ events[i-2].op = "call" /\ events[i-2].what = "run_charger"
              /\ events[i-1] = Event("pwmWrite", "driver",
                                     constrain(events[i-2].val, minDuty, maxDuty))
              /\ events[i-1].val = pulseWidth
    /\ shutDownPin = HIGH => pwmReg # NoWrite

C3_Witness ==
    /\ shutDownPin = HIGH
    /\ \E i \in DOMAIN events : IsEnable(events[i])

(***************************************************************************)
(* C4  Float variant: while the driver is enabled the PWM register holds   *)
(* at least 40% of 255 (102), and the percentage pwm is at least 40.       *)
(***************************************************************************)
C4_Never40 ==
    (variant = "float" /\ shutDownPin = HIGH) => (pwmReg >= 102 /\ pwm >= 40)

(***************************************************************************)
(* C5  Float variant: mode_select is a function of the measured voltages   *)
(* alone; whatever charger_state held before the call, the result is the   *)
(* same.                                                                   *)
(***************************************************************************)
C5_Pure ==
    (variant = "float" /\ TickDone) =>
        \A c1, c2 \in ChargerStates : classify_f(c1) = classify_f(c2)

\* Sunlight on the panel and the battery strictly between Vfloat - 0.1 and
\* Vfloat (float variant).
InBand_f ==
    /\ batteryVolts > noBatt_f /\ batteryVolts < Vmax_f
    /\ panelVolts > batteryVolts + 100
    /\ batteryVolts > Vfloat_f - 10 /\ batteryVolts < Vfloat_f

\* C5 as amended: outside the band the result does not depend on the
\* previous state and is the state the iteration ends in; inside the band
\* the previous state is kept, whichever it is.
C5_PureOutsideBand ==
    (variant = "float" /\ TickDone) =>
        IF InBand_f
        THEN \A c \in ChargerStates : classify_f(c) = c
        ELSE \A c \in ChargerStates : classify_f(c) = charger_state

C5_Witness ==
    variant = "float" /\ TickDone /\ InBand_f /\ charger_state = "bulk"

(***************************************************************************)
(* C6  Integer variant: mode_select is total and equals the reference      *)
(* classifier, applied in priority order.                                  *)
(***************************************************************************)
Reference_i(pv, bv) ==
    IF bv < 100 THEN "no_battery"
    ELSE IF bv > 150 THEN "error"
    ELSE IF bv > 100 /\ bv < 150 /\ pv > 150
         THEN (IF bv >= 135 THEN "Float" ELSE "bulk")
    ELSE "sleep"

C6_Total ==
    (variant = "int" /\ TickDone) =>
        charger_state = Reference_i(panelVolts, batteryVolts)

(***************************************************************************)
(* C7  NoBattery is recoverable: a loop iteration that starts in           *)
(* no_battery and measures a battery voltage above the no-battery          *)
(* threshold does not end in no_battery.                                   *)
(***************************************************************************)
C7_NoBatteryRecovers ==
    [][(charger_state = "no_battery" /\ events'[1].what = "read_data"
            /\ batteryVolts' > noBatt)
          => charger_state' # "no_battery"]_vars

(***************************************************************************)
(* C8  Overvoltage always trips Error: a loop iteration that measures      *)
(* batteryVolts > Vmax ends in error with the driver-enable pin low.       *)
(***************************************************************************)
C8_Overvoltage ==
    (TickDone /\ batteryVolts > Vmax) =>
        (charger_state = "error" /\ shutDownPin = LOW)

\* Overvoltage measured on a charger that has been driving the converter.
C8_Witness ==
    /\ TickDone /\ batteryVolts > Vmax /\ pwmReg # NoWrite
    /\ charger_state = "error" /\ shutDownPin = LOW

(***************************************************************************)
(* C9  No-battery detection: a loop iteration that measures batteryVolts   *)
(* below the no-battery threshold ends in no_battery with the              *)
(* driver-enable pin low.                                                  *)
(***************************************************************************)
C9_NoBattery ==
    (TickDone /\ batteryVolts < noBatt) =>
        (charger_state = "no_battery" /\ shutDownPin = LOW)

C9_Witness ==
    /\ TickDone /\ batteryVolts < noBatt /\ pwmReg # NoWrite
    /\ charger_state = "no_battery" /\ shutDownPin = LOW

(***************************************************************************)
(* C10  Float variant, sleep when dark: a loop iteration with              *)
(* 10 <= batteryVolts <= Vmax and panelVolts <= batteryVolts + 1 ends in   *)
(* sleep with the driver-enable pin low.                                   *)
(***************************************************************************)
C10_SleepWhenDark ==
    (variant = "float" /\ TickDone
        /\ 1000 <= batteryVolts /\ batteryVolts <= 1500
        /\ panelVolts <= batteryVolts + 100) =>
        (charger_state = "sleep" /\ shutDownPin = LOW)

\* The boundary: the panel exactly 1 V above the battery, after charging.
C10_Witness ==
    /\ variant = "float" /\ TickDone /\ pwmReg # NoWrite
    /\ batteryVolts = 1200 /\ panelVolts = 1300
    /\ charger_state = "sleep" /\ shutDownPin = LOW

(***************************************************************************)
(* C11  The driver-enable pin follows the state at the end of every loop   *)
(* iteration: in no_battery, sleep and error the pin is low; in bulk the   *)
(* pin is high and a duty within [minDuty, maxDuty] has been written in    *)
(* that iteration, also when CVM recalibrated (update_Vcvm disables the    *)
(* driver) earlier in the same iteration.                                  *)
(***************************************************************************)
C11_EnableFollowsState ==
    TickDone =>
        /\ charger_state \in {"no_battery", "sleep", "error"}
              => shutDownPin = LOW
        /\ charger_state = "bulk" =>
              /\ shutDownPin = HIGH
              /\ pwmReg \in minDuty..maxDuty
              /\ \E i \in DOMAIN events :
                    events[i].op = "pwmWrite" /\ events[i].val = pwmReg

\* A bulk iteration in which update_Vcvm disabled the driver and
\* run_charger enabled it again.
C11_Witness ==
    /\ TickDone /\ charger_state = "bulk" /\ Called("update_Vcvm")
    /\ \E i \in DOMAIN events :
          events[i].op = "digitalWrite" /\ events[i].what = "shutDown"
              /\ events[i].val = LOW
    /\ shutDownPin = HIGH

(***************************************************************************)
(* C12  Float: at the end of every loop iteration that ends in Float,      *)
(* pulseWidth is maxDuty (245) and the driver-enable pin is high exactly   *)
(* when the batteryVolts of that iteration is below Vfloat; when it is     *)
(* high, the value given to pwmWrite in that iteration is 245.             *)
(***************************************************************************)
Vfloat == IF variant = "float" THEN Vfloat_f ELSE Vfloat_i

C12_FloatAction ==
    (TickDone /\ charger_state = "Float") =>
        /\ pulseWidth = maxDuty
        /\ (shutDownPin = HIGH) <=> (batteryVolts < Vfloat)
        /\ shutDownPin = HIGH =>
              /\ pwmReg = maxDuty
              /\ \E i \in DOMAIN events : events[i].op = "pwmWrite"
              /\ \A i \in DOMAIN events :
                    events[i].op = "pwmWrite" => events[i].val = maxDuty

\* Float with the battery under Vfloat, entered from a lower duty: the
\* driver is enabled at 245.
C12_Witness ==
    /\ TickDone /\ charger_state = "Float" /\ batteryVolts < Vfloat
    /\ stepAmount > 1
    /\ shutDownPin = HIGH /\ pwmReg = maxDuty /\ pulseWidth = maxDuty

\* Float with the battery at or over Vfloat: the driver is disabled.
C12_WitnessOff ==
    /\ TickDone /\ charger_state = "Float" /\ batteryVolts >= Vfloat
    /\ pwmReg # NoWrite /\ shutDownPin = LOW /\ pulseWidth = maxDuty

(***************************************************************************)
(* C13  The step is never zero or negative: after every CVM call           *)
(* stepAmount >= 1, whatever Vcvm and panelVolts are, also when            *)
(* panelVolts = Vcvm and, in the integer variant, when panelVolts > Vcvm   *)
(* and the difference is negative.                                         *)
(***************************************************************************)
C13_StepPositive ==
    (TickDone /\ Called("CVM")) => stepAmount >= 1

\* The integer variant with the panel over the target: the signed
\* difference is negative and the step is 1.
C13_Witness ==
    /\ variant = "int" /\ TickDone /\ Called("CVM")
    /\ CDiv(Vcvm - panelVolts, 10) < 0 /\ stepAmount = 1

\* The panel exactly on the target.
C13_WitnessEqual ==
    /\ TickDone /\ Called("CVM") /\ panelVolts = Vcvm /\ stepAmount = 1

(***************************************************************************)
(* C14  Idempotence under stable input: a loop iteration in bulk whose CVM *)
(* call does not recalibrate and finds panelVolts = Vcvm leaves pulseWidth *)
(* as the previous iteration left it (run_charger is entered with that     *)
(* value); with that value within [minDuty, maxDuty] it is the duty        *)
(* written, and it is the duty the previous iteration wrote if that one    *)
(* called run_charger.  Being a property of every such step, it holds for  *)
(* any number of them in a row.                                            *)
(***************************************************************************)
C14_Idempotent ==
    [][(TickDone' /\ charger_state' = "bulk" /\ ~Called("update_Vcvm")'
            /\ panelVolts' = Vcvm')
        => /\ \E i \in DOMAIN events' :
                 /\ events'[i].op = "call" /\ events'[i].what = "run_charger"
                 /\ events'[i].val = pulseWidth
           /\ pulseWidth \in minDuty..maxDuty =>
                 (pulseWidth' = pulseWidth /\ pwmReg' = pulseWidth)
           /\ Called("run_charger") => pwmReg' = pwmReg]_vars

\* The panel on the target after the duty has moved away from its initial
\* value: the same duty is written again.
C14_Witness ==
    /\ TickDone /\ charger_state = "bulk" /\ ~Called("update_Vcvm")
    /\ panelVolts = Vcvm /\ variant = "float"
    /\ pulseWidth < maxDuty /\ pwmReg = pulseWidth /\ shutDownPin = HIGH

(***************************************************************************)
(* C15  Order within a loop iteration: read_data runs before mode_select,  *)
(* mode_select before set_charger, and run_load (and run_fan in the        *)
(* integer variant) after set_charger; every pwmWrite and every write of   *)
(* the driver-enable pin lies between the call of set_charger and the call *)
(* of run_load, hence after the classification, and what set_charger did   *)
(* is what the charger_state of this iteration selects.                    *)
(***************************************************************************)
TopLevel == {"read_data", "mode_select", "set_charger", "run_load", "run_fan"}

IsTopCall(ev) == ev.op = "call" /\ ev.what \in TopLevel

CallIndex(f) ==
    CHOOSE i \in DOMAIN events : events[i].op = "call" /\ events[i].what = f

SOCof(cs) ==
    CASE cs = "no_battery" -> "No Battery!"
      [] cs = "sleep" -> "Sleep"
      [] cs = "bulk" -> "Bulk"
      [] cs = "Float" -> "Float"
      [] cs = "error" -> "Error"

C15_TickOrder ==
    TickDone =>
        LET tops == SelectSeq(events, IsTopCall)
            order == [i \in DOMAIN tops |-> tops[i].what]
        IN  /\ order = IF variant = "float"
                       THEN <<"read_data", "mode_select", "set_charger",
                              "run_load">>
                       ELSE <<"read_data", "mode_select", "set_charger",
                              "run_load", "run_fan">>
            /\ \A i \in DOMAIN events :
                  (events[i].op = "pwmWrite"
                      \/ (events[i].op = "digitalWrite"
                             /\ events[i].what = "shutDown")
                      \/ (events[i].op = "call"
                             /\ events[i].what \in
                                   {"CVM", "update_Vcvm", "run_charger"}))
                  => /\ CallIndex("mode_select") < CallIndex("set_charger")
                     /\ CallIndex("set_charger") < i
                     /\ i < CallIndex("run_load")
            /\ SOC = SOCof(charger_state)
            /\ Called("CVM") <=> charger_state = "bulk"
            /\ Called("run_charger") <=>
                  \/ charger_state = "bulk"
                  \/ charger_state = "Float" /\ batteryVolts < Vfloat

\* An iteration of the integer variant that recalibrated, wrote a duty and
\* then switched load and fan.
C15_Witness ==
    /\ TickDone /\ variant = "int" /\ Called("update_Vcvm")
    /\ Called("run_charger") /\ Called("run_fan")
    /\ CallIndex("run_charger") < CallIndex("run_load")
    /\ CallIndex("run_load") < CallIndex("run_fan")
    /\ fanPin = HIGH

(***************************************************************************)
(* C16  A failed SetPinFrequencySafe does not halt the controller: setup   *)
(* ends with the driver disabled, charger_state = sleep and update_Vcvm    *)
(* run whatever SetPinFrequencySafe returned, the two outcomes differ in   *)
(* the level of the LED only, and no loop iteration depends on that level: *)
(* started from the state with the other LED level and given the same      *)
(* samples and the same clock, it ends in the same state and makes the     *)
(* same calls and writes.  By induction every iteration after a failed     *)
(* setup classifies and drives as after a successful one.                  *)
(***************************************************************************)
SetupDone == Len(events) > 0 /\ events[1].what = "setup"

NotLedWrite(ev) == ~(ev.op = "digitalWrite" /\ ev.what = "led")

\* A program state without what the LED shows.
NoLed(s) == [s EXCEPT !.led13 = LOW, !.events = SelectSeq(@, NotLedWrite)]

\* The sample sum update_Vcvm read in the events evs, 0 if it did not run.
VocSample(evs) ==
    IF \E i \in DOMAIN evs : evs[i].op = "call" /\ evs[i].what = "update_Vcvm"
    THEN evs[(CHOOSE i \in DOMAIN evs :
                 evs[i].op = "call" /\ evs[i].what = "update_Vcvm") + 2].val
    ELSE 0

setup_v(v, success, vsum) ==
    IF v = "float" THEN setup_f(success, vsum) ELSE setup_i(success, vsum)

loop_v(s, e, psum, bsum, vsum) ==
    IF s.variant = "float" THEN loop_f(s, e, psum, bsum, vsum)
                           ELSE loop_i(s, e, psum, bsum, vsum)

OtherLevel(l) == IF l = LOW THEN HIGH ELSE LOW

C16_FailureDoesNotHalt ==
    [][/\ SetupDone' =>
            LET ok == setup_v(variant', TRUE, VocSample(events'))
                failed == setup_v(variant', FALSE, VocSample(events'))
            IN  /\ cur' \in {ok, failed}
                /\ NoLed(ok) = NoLed(failed)
                /\ failed.shutDownPin = LOW /\ failed.charger_state = "sleep"
                /\ failed.Vcvm = CDiv(failed.Voc * 76, 100)
                /\ \E i \in DOMAIN failed.events :
                      /\ failed.events[i].op = "call"
                      /\ failed.events[i].what = "update_Vcvm"
       /\ TickDone' =>
            LET twin == [cur EXCEPT !.led13 = OtherLevel(led13)]
                after == loop_v(twin, millis' - millis, events'[2].val,
                                events'[3].val, VocSample(events'))
            IN  /\ [after EXCEPT !.led13 = LOW] = [cur' EXCEPT !.led13 = LOW]
                /\ after.led13 # led13' => after.led13 = twin.led13]_vars

\* The state a failed setup leaves: LED low, driver off, Voc measured.
C16_Witness ==
    /\ SetupDone /\ led13 = LOW /\ shutDownPin = LOW
    /\ \E i \in DOMAIN events : events[i] = Event("digitalWrite", "led", LOW)
    /\ charger_state = "sleep" /\ Called("update_Vcvm") /\ Vcvm > 0

(***************************************************************************)
(* C17  Recalibration when the Voc estimate is stale.  As claimed: a bulk  *)
(* iteration that does not call update_Vcvm lies less than check ms after  *)
(* the most recent update_Vcvm call (the one of setup included), also when *)
(* the time in between was spent outside bulk.                             *)
(***************************************************************************)
C17_RecalWhenStale ==
    (TickDone /\ charger_state = "bulk" /\ ~Called("update_Vcvm"))
        => millis - vocTime < check

(***************************************************************************)
(* C17 as the code has it: the interval is counted from the first CVM      *)
(* call after the most recent update_Vcvm (that call stores millis() in    *)
(* time and clears b).  A bulk iteration calls update_Vcvm exactly when at *)
(* least check ms have elapsed since then; time spent before that first    *)
(* CVM call, in or out of bulk, does not count.                            *)
(***************************************************************************)
C17_RecalWhenTimerElapsed ==
    (TickDone /\ charger_state = "bulk") =>
        IF Called("update_Vcvm")
        THEN b = 1 /\ vocTime = millis /\ millis - time >= check
        ELSE b = 0 /\ millis - time < check

\* A recalibration in bulk, check ms after the timer was armed.
C17_Witness ==
    /\ TickDone /\ charger_state = "bulk" /\ Called("update_Vcvm")
    /\ b = 1 /\ vocTime = millis /\ millis - time = check

(***************************************************************************)
(* C18  The step rule of the float variant: in every bulk iteration, with  *)
(* P the pulseWidth at the start of the iteration, V the Vcvm after any    *)
(* recalibration and the start-up guard, and s = max(1, trunc(|V -         *)
(* panelVolts|)), the duty written by run_charger is min(245, P + s) when  *)
(* panelVolts > V and max(100, P - s) when panelVolts < V.                 *)
(***************************************************************************)
Min(x, y) == IF x < y THEN x ELSE y
Max(x, y) == IF x > y THEN x ELSE y

C18_StepRule ==
    [][(variant' = "float" /\ TickDone' /\ charger_state' = "bulk") =>
          LET P == pulseWidth
              V == Vcvm'
              s == Max(1, abs(V - panelVolts') \div 100)
              written == SelectSeq(events', LAMBDA ev : ev.op = "pwmWrite")
          IN  /\ stepAmount' = s
              /\ Len(written) = 1 /\ written[1].val = pwmReg'
              /\ panelVolts' > V => pwmReg' = Min(maxDuty, P + s)
              /\ panelVolts' < V => pwmReg' = Max(minDuty_f, P - s)]_vars

\* Battery 12.0 V, panel 18.0 V, Vcvm 17.0 V: the step is 1 and the duty
\* has gone up by it to a value inside the range.
C18_Witness ==
    /\ variant = "float" /\ TickDone /\ charger_state = "bulk"
    /\ batteryVolts = 1200 /\ panelVolts = 1800 /\ Vcvm = 1700
    /\ stepAmount = 1 /\ pwmReg = pulseWidth
    /\ pwmReg > minDuty_f + 1 /\ pwmReg < maxDuty

\* The panel 5.5 V over the target: the step is 5.
C18_WitnessFar ==
    /\ variant = "float" /\ TickDone /\ charger_state = "bulk"
    /\ panelVolts = 1800 /\ Vcvm = 1250 /\ stepAmount = 5

(***************************************************************************)
(* C19  The step of the integer variant: after every CVM call stepAmount   *)
(* is max(1, |Vcvm - panelVolts| / 10), growing with the distance from the *)
(* target in both directions.                                              *)
(***************************************************************************)
C19_StepMagnitude ==
    (variant = "int" /\ TickDone /\ Called("CVM")) =>
        stepAmount = Max(1, CDiv(abs(Vcvm - panelVolts), 10))

(***************************************************************************)
(* C20  Float variant, as claimed: at the end of every CVM call Vcvm is at *)
(* least batteryVolts plus a margin of 1 V.                                *)
(***************************************************************************)
C20_TargetAboveBattery ==
    (variant = "float" /\ TickDone /\ Called("CVM")) =>
        Vcvm >= batteryVolts + 100

(***************************************************************************)
(* C20 as the code has it: at the end of every CVM call of the float       *)
(* variant Vcvm >= batteryVolts.  With V0 the Vcvm the call starts from    *)
(* (0.76 Voc if it recalibrated, the previous Vcvm if not), Vcvm is        *)
(* batteryVolts + 1 V if V0 < batteryVolts and V0 otherwise; a target      *)
(* between batteryVolts and batteryVolts + 1 V is left alone.              *)
(***************************************************************************)
C20_GuardRule ==
    [][(variant' = "float" /\ TickDone' /\ Called("CVM")') =>
          LET V0 == IF Called("update_Vcvm")' THEN (Voc' * 76) \div 100
                                              ELSE Vcvm
          IN  /\ Vcvm' = IF V0 < batteryVolts' THEN batteryVolts' + 100
                                               ELSE V0
              /\ Vcvm' >= batteryVolts']_vars

\* The guard has acted: the target is 1 V over the battery and is not
\* 0.76 Voc.
C20_Witness ==
    /\ variant = "float" /\ TickDone /\ Called("CVM")
    /\ Vcvm = batteryVolts + 100 /\ Vcvm # (Voc * 76) \div 100

(***************************************************************************)
(* C21  As claimed: Voc and Vcvm change only on recalibration; a loop      *)
(* iteration that does not call update_Vcvm leaves both as they were at    *)
(* its start.                                                              *)
(***************************************************************************)
C21_OnlyRecal ==
    [][(TickDone' /\ ~Called("update_Vcvm")')
          => (Voc' = Voc /\ Vcvm' = Vcvm)]_vars

(***************************************************************************)
(* C21 as the code has it: a loop iteration that does not call             *)
(* update_Vcvm leaves Voc as it was; it leaves Vcvm as it was except in a  *)
(* bulk iteration of the float variant that starts with Vcvm below the     *)
(* measured batteryVolts, where the start-up guard of CVM sets Vcvm to     *)
(* batteryVolts + 1 V.                                                     *)
(***************************************************************************)
C21_OnlyRecalOrGuard ==
    [][(TickDone' /\ ~Called("update_Vcvm")') =>
          /\ Voc' = Voc
          /\ Vcvm' = IF variant' = "float" /\ charger_state' = "bulk"
                          /\ Vcvm < batteryVolts'
                     THEN batteryVolts' + 100 ELSE Vcvm]_vars

\* A sleep iteration after a recalibration in bulk: the measured Voc and
\* the target derived from it are still there.
C21_Witness ==
    /\ TickDone /\ ~Called("update_Vcvm") /\ charger_state = "sleep"
    /\ vocTime > 0 /\ millis > vocTime
    /\ Vcvm = CDiv(Voc * 76, 100)

(***************************************************************************)
(* C22  disable_charger is inert on the duty: called in the state a        *)
(* setup() or loop() call has left, it writes the driver-enable pin low,   *)
(* sets the text enable and changes nothing else (no pwmWrite; pulseWidth, *)
(* the PWM register, charger_state, Voc and Vcvm stay).  The PWM register  *)
(* is written only inside run_charger: every pwmWrite directly follows the *)
(* entry of run_charger, and an iteration that does not call run_charger   *)
(* leaves the register as it was, also when it disabled the driver.        *)
(***************************************************************************)
C22_DisableInert ==
    [][(TickDone' \/ SetupDone') =>
          /\ disable_charger(cur') =
                [cur' EXCEPT !.shutDownPin = LOW, !.enable = "Off",
                             !.events = Append(@, Event("digitalWrite",
                                                        "shutDown", LOW))]
          /\ \A i \in DOMAIN events' :
                events'[i].op = "pwmWrite" =>
                    /\ i > 1
                    /\ events'[i - 1].op = "call"
                    /\ events'[i - 1].what = "run_charger"
          /\ (TickDone' /\ ~Called("run_charger")') => pwmReg' = pwmReg]_vars

\* The driver switched off in sleep after charging: the register and
\* pulseWidth keep the last duty.
C22_Witness ==
    /\ TickDone /\ variant = "float" /\ charger_state = "sleep"
    /\ \E i \in DOMAIN events :
          events[i] = Event("digitalWrite", "shutDown", LOW)
    /\ shutDownPin = LOW /\ enable = "Off"
    /\ pwmReg # NoWrite /\ pwmReg < maxDuty /\ pulseWidth = pwmReg

(***************************************************************************)
(* C23  Hysteresis of the float variant: from one loop iteration to the    *)
(* next the state goes from bulk to Float only with batteryVolts >= Vfloat *)
(* (13.6 V) and from Float to bulk only with batteryVolts <= Vfloat - 0.1  *)
(* (13.5 V); an iteration with sunlight and the battery strictly between   *)
(* the two leaves bulk in bulk and Float in Float, so a run of such        *)
(* iterations never switches.  The two thresholds themselves are probed    *)
(* by classifying readings of 13.50, 13.51, 13.59 and 13.60 V.             *)
(***************************************************************************)
\* Battery readings at and next to the two thresholds, in centi-volts.
BandProbe == {1350, 1351, 1359, 1360}

C23_Hysteresis ==
    [][(variant = "float" /\ TickDone') =>
          /\ (charger_state = "bulk" /\ charger_state' = "Float")
                => batteryVolts' >= Vfloat_f
          /\ (charger_state = "Float" /\ charger_state' = "bulk")
                => batteryVolts' <= Vfloat_f - 10
          /\ (InBand_f' /\ charger_state \in {"bulk", "Float"})
                => charger_state' = charger_state
          /\ \A bv \in BandProbe, prev \in {"bulk", "Float"} :
                LET r == mode_select_f(
                            [cur EXCEPT !.batteryVolts = bv,
                                        !.panelVolts = bv + 101,
                                        !.charger_state = prev]).charger_state
                IN  r = IF bv >= Vfloat_f THEN "Float"
                        ELSE IF bv <= Vfloat_f - 10 THEN "bulk" ELSE prev]_vars

\* Float kept inside the band, the driver on (the battery is under Vfloat).
C23_Witness ==
    /\ variant = "float" /\ TickDone /\ InBand_f
    /\ charger_state = "Float" /\ shutDownPin = HIGH

(***************************************************************************)
(* C24  Measurement determinism: the panelVolts and batteryVolts that      *)
(* read_data produces depend only on the samples read in that call, so two *)
(* consecutive loop iterations that read the same sample sums end with the *)
(* same panelVolts and the same batteryVolts, whatever the variables held  *)
(* before.                                                                 *)
(***************************************************************************)
C24_Deterministic ==
    [][(TickDone /\ TickDone' /\ variant' = variant
            /\ events'[2] = events[2] /\ events'[3] = events[3])
          => (panelVolts' = panelVolts /\ batteryVolts' = batteryVolts)]_vars

(***************************************************************************)
(* C25  The load switch: at the end of every loop iteration the load is on *)
(* (load pin LOW, Load = "On") if that iteration's batteryVolts is over    *)
(* lowBatt (11 V, 110 dV) and off (pin HIGH, Load = "Off") if not,         *)
(* whatever charger_state, panelVolts and the load state before are.       *)
(***************************************************************************)
lowBatt == IF variant = "float" THEN lowBatt_f ELSE lowBatt_i

C25_LoadSwitch ==
    TickDone =>
        /\ events[Len(events) - (IF variant = "float" THEN 0 ELSE 2)] =
              Event("digitalWrite", "load",
                    IF batteryVolts > lowBatt THEN LOW ELSE HIGH)
        /\ IF batteryVolts > lowBatt
           THEN loadPin = LOW /\ Load = "On"
           ELSE loadPin = HIGH /\ Load = "Off"

\* The load stays on in the error state: the battery is over lowBatt.
C25_Witness ==
    /\ TickDone /\ charger_state = "error" /\ batteryVolts > lowBatt
    /\ loadPin = LOW /\ Load = "On"

\* The load is off with a battery between the no-battery threshold and
\* lowBatt while the charger is in bulk.
C25_WitnessOff ==
    /\ TickDone /\ charger_state = "bulk" /\ batteryVolts <= lowBatt
    /\ loadPin = HIGH /\ Load = "Off"

(***************************************************************************)
(* C26  Charging only inside the safe battery window: whenever the         *)
(* driver-enable pin is high at the end of a loop iteration, that          *)
(* iteration's batteryVolts lies strictly between the no-battery threshold *)
(* and Vmax.                                                               *)
(***************************************************************************)
C26_SafeWindow ==
    (TickDone /\ shutDownPin = HIGH) =>
        (noBatt < batteryVolts /\ batteryVolts < Vmax)

\* The same for the float variant alone.
C26_SafeWindow_f ==
    (variant = "float" /\ TickDone /\ shutDownPin = HIGH) =>
        (noBatt_f < batteryVolts /\ batteryVolts < Vmax_f)

(***************************************************************************)
(* C27  Minimum spacing of recalibrations: a loop iteration in which CVM   *)
(* calls update_Vcvm starts with the timer armed (b = 0) by a CVM call     *)
(* that came no earlier than the previous update_Vcvm call, and lies at    *)
(* least check ms after that arming, hence at least check ms after the     *)
(* previous update_Vcvm call (CVM's or setup's) and at least check ms      *)
(* after the first bulk iteration that followed it.                        *)
(***************************************************************************)
C27_RecalSpacing ==
    [][(TickDone' /\ Called("update_Vcvm")') =>
          /\ b = 0 /\ time >= vocTime
          /\ millis' - time >= check
          /\ millis' - vocTime >= check
          /\ vocTime' = millis' /\ b' = 1]_vars

\* The second recalibration after a reset: armed at 5000 ms, recalibrated
\* at 20000 ms, armed again at 25000 ms, recalibrated at 40000 ms.
C27_Witness ==
    /\ TickDone /\ Called("update_Vcvm") /\ millis = 40000
    /\ vocTime = millis /\ time = 25000

(***************************************************************************)
(* C28  The controller never stalls.  From one bulk iteration to the next: *)
(* if the panel is over Vcvm, the written duty does not go down, goes up   *)
(* by at least 1 while it is under maxDuty (245) and stays at maxDuty once *)
(* there; if the panel is under Vcvm, it does not go up, goes down by at   *)
(* least 1 while it is over minDuty (100, 75) and stays at minDuty once    *)
(* there.  A run of bulk iterations on one side of the target therefore    *)
(* reaches the bound within maxDuty - minDuty iterations and stays there.  *)
(***************************************************************************)
C28_NoStall ==
    [][(TickDone /\ charger_state = "bulk"
            /\ TickDone' /\ charger_state' = "bulk") =>
          /\ panelVolts' > Vcvm' =>
                /\ pwmReg' >= pwmReg /\ pwmReg' <= maxDuty
                /\ pwmReg < maxDuty => pwmReg' > pwmReg
                /\ pwmReg = maxDuty => pwmReg' = maxDuty
          /\ panelVolts' < Vcvm' =>
                /\ pwmReg' <= pwmReg /\ pwmReg' >= minDuty
                /\ pwmReg > minDuty => pwmReg' < pwmReg
                /\ pwmReg = minDuty => pwmReg' = minDuty]_vars

\* The integer variant has come down from 100 to minDuty in steps larger
\* than 1, the panel still under the target.
C28_Witness ==
    /\ variant = "int" /\ TickDone /\ charger_state = "bulk"
    /\ panelVolts < Vcvm /\ stepAmount > 1
    /\ pwmReg = minDuty_i /\ pulseWidth = minDuty_i /\ shutDownPin = HIGH

\* The float variant back at maxDuty: the last rising step went past it
\* and run_charger brought it back.
C28_WitnessUp ==
    /\ variant = "float" /\ TickDone /\ charger_state = "bulk"
    /\ panelVolts > Vcvm /\ stepAmount > 1 /\ pwmReg = maxDuty
    /\ \E i \in DOMAIN events :
          /\ events[i].op = "call" /\ events[i].what = "run_charger"
          /\ events[i].val > maxDuty

(***************************************************************************)
(* C29  Safe start-up: setup ends with the driver-enable pin low,          *)
(* charger_state = sleep and no PWM value written; as long as no PWM value *)
(* has been written since the reset the pin is low, and a loop iteration   *)
(* that starts in that situation enables the driver and writes a PWM value *)
(* exactly if it ends in bulk, or in Float with batteryVolts < Vfloat.     *)
(***************************************************************************)
Drives(ev) ==
    ev.op = "pwmWrite"
        \/ (ev.op = "digitalWrite" /\ ev.what = "shutDown" /\ ev.val = HIGH)

C29_SafeStart ==
    [][/\ SetupDone' =>
            /\ shutDownPin' = LOW /\ charger_state' = "sleep"
            /\ pwmReg' = NoWrite
            /\ \A i \in DOMAIN events' : ~Drives(events'[i])
       /\ (pwmReg = NoWrite /\ TickDone') =>
            /\ shutDownPin = LOW
            /\ IF \/ charger_state' = "bulk"
                  \/ charger_state' = "Float" /\ batteryVolts' < Vfloat'
               THEN shutDownPin' = HIGH /\ pwmReg' \in minDuty'..maxDuty
               ELSE /\ shutDownPin' = LOW /\ pwmReg' = NoWrite
                    /\ \A i \in DOMAIN events' : ~Drives(events'[i])]_vars

\* Ten seconds after the reset, in Float with a full battery: the driver
\* has never been enabled and no PWM value has been written.
C29_Witness ==
    /\ TickDone /\ millis >= 10000 /\ charger_state = "Float"
    /\ pwmReg = NoWrite /\ shutDownPin = LOW /\ enable = "Off"

\* The first iteration that drives: bulk right after setup.
C29_WitnessFirst ==
    /\ TickDone /\ millis = 5000 /\ charger_state = "bulk"
    /\ pwmReg # NoWrite /\ shutDownPin = HIGH

(***************************************************************************)
(* The timer of CVM on the 32-bit clock.  millis() and time are unsigned   *)
(* long: 32 bits, kept here as <<hi, lo>> = hi * 2^16 + lo.  SpecWrap      *)
(* follows the counter across its wrap: WrapTick lets time pass (a loop    *)
(* iteration, or days without a CVM call outside bulk), WrapCVM is the     *)
(* timer part of a CVM call.  The rest of the program state rests.         *)
(***************************************************************************)
Limb == 65536

\* unsigned long addition and subtraction: modulo 2^32
Add32(a, e) ==
    LET lo == a[2] + e[2]
    IN  <<(a[1] + e[1] + lo \div Limb) % Limb, lo % Limb>>

Sub32(a, c) ==
    LET lo == a[2] - c[2]
        borrow == IF lo < 0 THEN 1 ELSE 0
    IN  <<(a[1] - c[1] - borrow + Limb) % Limb, (lo + Limb) % Limb>>

\* x >= check for an unsigned long x (check is below 2^16)
AtLeastCheck(x) == x[1] > 0 \/ x[2] >= check

\* Mutant of Due32: millis() >= time + check.
Due32_sum(now, t) ==
    LET d == Add32(t, <<0, check>>)
    IN  now[1] > d[1] \/ (now[1] = d[1] /\ now[2] >= d[2])

\* (millis() - time) >= check
Due32(now, t) == AtLeastCheck(Sub32(now, t))

\* Time that truly passes: sums and differences not reduced modulo 2^32.
AddTrue(s, e) ==
    LET lo == s[2] + e[2]
    IN  <<s[1] + e[1] + lo \div Limb, lo % Limb>>

SubTrue(s, a) ==
    LET lo == s[2] - a[2]
        borrow == IF lo < 0 THEN 1 ELSE 0
    IN  <<s[1] - a[1] - borrow, (lo + Limb) % Limb>>

\* The ms that truly passed since time was stored.
since == SubTrue(passed, armedAt)

\* Counter values at the start: 0 and 20, 10 and 5 s before the wrap.
WrapStarts == {<<0, 0>>, <<65535, 45536>>, <<65535, 55536>>, <<65535, 60536>>}

\* 5 s, 10 s and 2^30 ms (12.4 days).
WrapElapsed == {<<0, 5000>>, <<0, 10000>>, <<16384, 0>>}

\* Time is followed while the low limb of passed stays within WrapHorizon
\* and its high limb within WrapSpan (5 * 2^30 ms, more than one wrap).
WrapHorizon == 30000
WrapSpan == 81920

InitWrap ==
    /\ IsState(setup_f(TRUE, 58659))
    /\ clock32 \in WrapStarts /\ time32 = <<0, 0>>
    /\ passed = <<0, 0>> /\ armedAt = <<0, 0>>

WrapRest ==
    UNCHANGED <<variant, millis, charger_state, panelVolts, batteryVolts, Voc,
                Vcvm, pulseWidth, pwm, stepAmount, time, enable, SOC, Load,
                state, LEDstate, time2, shutDownPin, pwmReg, loadPin, fanPin,
                led13, events, vocTime>>

WrapTick ==
    /\ \E e \in WrapElapsed :
          /\ passed[2] + e[2] <= WrapHorizon
          /\ passed[1] + e[1] <= WrapSpan
          /\ clock32' = Add32(clock32, e)
          /\ passed' = AddTrue(passed, e)
    /\ UNCHANGED <<b, time32, armedAt>>
    /\ WrapRest

\* while(b > 0){ time = millis(); b--; }
\* if((millis() - time) >= check) update_Vcvm();     (which sets b = 1)
WrapCVM ==
    /\ LET armed == b > 0
           t == IF armed THEN clock32 ELSE time32
       IN  /\ time32' = t
           /\ armedAt' = IF armed THEN passed ELSE armedAt
           /\ b' = IF Due32(clock32, t) THEN 1 ELSE 0
    /\ UNCHANGED <<clock32, passed>>
    /\ WrapRest

NextWrap == WrapTick \/ WrapCVM

SpecWrap == InitWrap /\ [][NextWrap]_vars

TrulyDue == since[1] > 0 \/ since[2] >= check

Wrapped == clock32[1] < time32[1]
               \/ (clock32[1] = time32[1] /\ clock32[2] < time32[2])

(***************************************************************************)
(* C30  Clock wrap-around: while the timer is armed and less than 2^32 ms  *)
(* have truly passed since time was stored, millis() - time computed       *)
(* modulo 2^32 is the time that has passed, so the test                    *)
(* (millis() - time) >= check is true exactly when at least check ms have  *)
(* passed, also when millis() has wrapped in between.                      *)
(***************************************************************************)
C30_WrapSafe ==
    (b = 0 /\ since[1] < Limb) =>
        /\ Sub32(clock32, time32) = since
        /\ Due32(clock32, time32) <=> TrulyDue

\* The counter has wrapped since the timer was armed and the test is due.
C30_Witness ==
    /\ b = 0 /\ since[1] < Limb /\ Wrapped
    /\ TrulyDue /\ Due32(clock32, time32)

\* The counter has wrapped and the test is not yet due.
C30_WitnessNotDue ==
    /\ b = 0 /\ Wrapped /\ since = <<0, 10000>>
    /\ ~Due32(clock32, time32)

=============================================================================
